---- MODULE Spec2Model ----
(***************************************************************************)
(* Stratified K-fold cross-validation of the gastrectomy risk model        *)
(* (scripts/cross_validate_gastrectomy.js): fold construction, the         *)
(* per-fold train/evaluate loop, and the metrics of one fold.  The         *)
(* training module's loadAndPreprocessData, trainModel and the model's     *)
(* predict are calls that either return or throw; what predict returns is  *)
(* any vector of probabilities.  The last part models the two Express     *)
(* applications (src/index.js and its authenticated variant) as the chain  *)
(* of middleware and handlers one request passes through.                  *)
(*                                                                         *)
(* Conventions.  Dataset indices are the 0-based JavaScript indices; a     *)
(* JavaScript array a is the sequence s with a[i] = s[i+1].  A predicted   *)
(* probability is an integer number of quarters (0 = 0.0, 2 = 0.5,         *)
(* 4 = 1.0).  A JavaScript quotient n/d is the record [num, den]; 0/0,     *)
(* which JavaScript evaluates to NaN, is the record with den = 0.          *)
(* Floating-point rounding of the quotients is not modelled.               *)
(***************************************************************************)
EXTENDS Integers, Sequences, FiniteSets, TLC

VARIABLES
    labels,        \* flatLabels: the label of every sample of the dataset
    nFolds,        \* CV_CONFIG.nFolds (the k handed to createStratifiedFolds)
    predictions,   \* evaluateFold: the probabilities model.predict returned
    yTest,         \* evaluateFold: the labels of the test fold
    metrics,       \* evaluateFold: the value returned, NoMetrics before the call
    baseline,      \* the metrics of the same samples before their scores were rescaled
    partitions,    \* what the calls of createStratifiedFolds made so far returned
    currentSeed,   \* shuffle's comparator counter as the last shuffle left it (0: none yet)
    pc,            \* runCrossValidation: the step it is at
    folds,         \* runCrossValidation: const folds
    foldIdx,       \* runCrossValidation: the loop variable
    foldResults,   \* runCrossValidation: const foldResults
    model,         \* the instance createModel returned last (0: none yet)
    modelsCreated, \* how many times createModel was called
    createLog,     \* the createModel calls made: fold, instance returned
    fitLog,        \* the trainModel calls made: fold, instance, training indices
    predictLog,    \* the model.predict calls made: fold, instance, test indices
    report,        \* the report written to cv_results.json and returned
    verdict,       \* the stability line printed after the report was saved
    live,          \* the tensors and models of the folds that were made and not disposed
    earlier,       \* the statistics and verdict the same results gave in another order
    error,         \* what the catch block caught, and in which fold
    server,        \* which Express application is running: index.js or the authenticated one
    apiToken,      \* process.env.API_TOKEN
    request,       \* the request the application is handling
    stage,         \* the middleware or handler the request is at
    responses,     \* the responses sent to the request
    ran            \* the handlers and middleware that ran for the request

evalVars == <<predictions, yTest, metrics, baseline>>
foldVars == <<partitions, currentSeed>>
runVars == <<pc, folds, foldIdx, foldResults, model, modelsCreated, createLog, fitLog,
             predictLog, report, verdict, live, earlier, error>>
httpVars == <<server, apiToken, request, stage, responses, ran>>
vars == <<labels, nFolds, evalVars, foldVars, runVars, httpVars>>

-----------------------------------------------------------------------------
(* Bounds of the model *)

MaxLen == 4        \* longest prediction/label input of evaluateFold
MaxScore == 3      \* largest predicted probability, in quarters (0.75)
Stretch == 1       \* a rescaling maps the scores into 0..MaxScore+Stretch
MaxN == 5          \* largest dataset of a cross-validation run
MaxK == 3          \* largest number of folds
MaxCalls == 2      \* calls of createStratifiedFolds on the same input
MaxSamples == 8    \* largest dataset given to createStratifiedFolds alone

Scores == 0..MaxScore
Labels == {0, 1}

-----------------------------------------------------------------------------
(* JavaScript numbers *)

Div(n, d) == [num |-> n, den |-> d]
IsNaN(q) == q.den = 0
Zero == Div(0, 1)
\* the || 0 left out: 0/0 stays NaN
OrZeroMissing(q) == q

\* x || 0 : NaN and 0 are falsy
OrZero(q) == IF q.den = 0 \/ q.num = 0 THEN Zero ELSE q
\* equality of two numbers as === sees it (NaN equals nothing)
NumEq(a, b) == /\ a.den # 0
               /\ b.den # 0
               /\ a.num * b.den = b.num * a.den

\* the arithmetic of calculateStats, on quotients kept in lowest terms
RECURSIVE GCD(_, _)
GCD(a, b) == IF b = 0 THEN a ELSE GCD(b, a % b)
Abs(x) == IF x < 0 THEN -x ELSE x
NaN == Div(0, 0)
Reduce(q) ==
    IF q.den = 0 THEN NaN
    ELSE LET g == GCD(Abs(q.num), q.den) IN Div(q.num \div g, q.den \div g)
Plus(a, b) == Reduce(Div(a.num * b.den + b.num * a.den, a.den * b.den))
Minus(a, b) == Reduce(Div(a.num * b.den - b.num * a.den, a.den * b.den))
Times(a, b) == Reduce(Div(a.num * b.num, a.den * b.den))
Over(a, n) == Reduce(Div(a.num, a.den * n))
Less(a, b) == /\ a.den # 0
              /\ b.den # 0
              /\ a.num * b.den < b.num * a.den

-----------------------------------------------------------------------------
(* evaluateFold *)

threshold == 2     \* const threshold = 0.5, in quarters

\* a slip of the comparison: 0.5 itself predicted negative
BinarizeStrict(p) == IF p > threshold THEN 1 ELSE 0

Binarize(p) == IF p >= threshold THEN 1 ELSE 0

\* binary = predictions.map(p => p[0] >= threshold ? 1 : 0)
Binary(preds) == [i \in 1..Len(preds) |-> Binarize(preds[i])]

\* binary.forEach((pred, i) => { four ifs }) : the counters after the first i samples
RECURSIVE Confusion(_, _, _)
Confusion(binary, labs, i) ==
    IF i = 0 THEN [tp |-> 0, fp |-> 0, tn |-> 0, fn |-> 0]
    ELSE LET c == Confusion(binary, labs, i - 1)
             pred == binary[i]
             actual == labs[i]
         IN [tp |-> c.tp + (IF pred = 1 /\ actual = 1 THEN 1 ELSE 0),
             fp |-> c.fp + (IF pred = 1 /\ actual = 0 THEN 1 ELSE 0),
             tn |-> c.tn + (IF pred = 0 /\ actual = 0 THEN 1 ELSE 0),
             fn |-> c.fn + (IF pred = 0 /\ actual = 1 THEN 1 ELSE 0)]

\* Array.prototype.sort with the consistent comparator (a, b) => b.pred - a.pred:
\* a stable sort, descending by pred.  InsertDesc puts x after every element
\* whose pred is not smaller.
RECURSIVE InsertDesc(_, _)
InsertDesc(sorted, x) ==
    IF sorted = << >> THEN <<x>>
    ELSE IF Head(sorted).pred >= x.pred
         THEN <<Head(sorted)>> \o InsertDesc(Tail(sorted), x)
         ELSE <<x>> \o sorted

RECURSIVE SortPairs(_)
SortPairs(pairs) ==
    IF pairs = << >> THEN << >>
    ELSE InsertDesc(SortPairs(SubSeq(pairs, 1, Len(pairs) - 1)), pairs[Len(pairs)])

\* a slip of the ranking input: the binarized predictions ranked instead of the scores
MakePairsBinary(preds, labs) ==
    [i \in 1..Len(preds) |-> [pred |-> Binarize(preds[i]), label |-> labs[i]]]

MakePairs(preds, labs) ==
    [i \in 1..Len(preds) |-> [pred |-> preds[i], label |-> labs[i]]]

\* the ranks counted from 0: sumRanks += i
RECURSIVE RankSumZeroBased(_, _)
RankSumZeroBased(pairs, i) ==
    IF i = 0 THEN [positives |-> 0, negatives |-> 0, sumRanks |-> 0]
    ELSE LET r == RankSumZeroBased(pairs, i - 1)
         IN IF pairs[i].label = 1
            THEN [positives |-> r.positives + 1,
                  negatives |-> r.negatives,
                  sumRanks |-> r.sumRanks + i - 1]
            ELSE [positives |-> r.positives,
                  negatives |-> r.negatives + 1,
                  sumRanks |-> r.sumRanks]

\* pairs.forEach((pair, i) => ...) : the counters after the first i pairs
RECURSIVE RankSum(_, _)
RankSum(pairs, i) ==
    IF i = 0 THEN [positives |-> 0, negatives |-> 0, sumRanks |-> 0]
    ELSE LET r == RankSum(pairs, i - 1)
         IN IF pairs[i].label = 1
            THEN [positives |-> r.positives + 1,
                  negatives |-> r.negatives,
                  sumRanks |-> r.sumRanks + i]
            ELSE [positives |-> r.positives,
                  negatives |-> r.negatives + 1,
                  sumRanks |-> r.sumRanks]

\* auc = (sumRanks - positives * (positives + 1) / 2) / (positives * negatives),
\* numerator and denominator doubled to stay in the integers
Auc(preds, labs) ==
    LET pairs == SortPairs(MakePairs(preds, labs))
        r == RankSum(pairs, Len(pairs))
    IN Div(2 * r.sumRanks - r.positives * (r.positives + 1),
           2 * r.positives * r.negatives)

evaluateFold(preds, labs) ==
    LET c == Confusion(Binary(preds), labs, Len(preds))
        accuracy == Div(c.tp + c.tn, c.tp + c.tn + c.fp + c.fn)
        precision == OrZero(Div(c.tp, c.tp + c.fp))
        recall == OrZero(Div(c.tp, c.tp + c.fn))
        \* 2 * (p * r) / (p + r) with p = a/b and r = c/d is 2ac / (ad + cb)
        f1 == OrZero(Div(2 * precision.num * recall.num,
                         precision.num * recall.den + recall.num * precision.den))
        specificity == OrZero(Div(c.tn, c.tn + c.fp))
    IN [accuracy |-> accuracy,
        precision |-> precision,
        recall |-> recall,
        f1 |-> f1,
        specificity |-> specificity,
        auc |-> Auc(preds, labs),
        confusionMatrix |-> c]

\* a request without an Authorization header, and one whose header has the
\* given words and spaces
Absent == [present |-> FALSE, value |-> << >>]
Header(value) == [present |-> TRUE, value |-> value]

\* no request yet
NoRequest == [method |-> "none", path |-> "none", authorization |-> Absent, body |-> "none"]

\* no Express application started
NoHttp ==
    /\ server = "none"
    /\ apiToken = "undefined"
    /\ request = NoRequest
    /\ stage = "off"
    /\ responses = << >>
    /\ ran = {}

NoRun ==
    /\ pc = "idle"
    /\ folds = << >>
    /\ foldIdx = 0
    /\ foldResults = << >>
    /\ model = 0
    /\ modelsCreated = 0
    /\ createLog = << >>
    /\ fitLog = << >>
    /\ predictLog = << >>
    /\ report = [written |-> FALSE]
    /\ verdict = "none"
    /\ live = {}
    /\ earlier = [written |-> FALSE]
    /\ error = [kind |-> "none", fold |-> -1]

NoMetrics == [accuracy |-> Zero, precision |-> Zero, recall |-> Zero, f1 |-> Zero,
              specificity |-> Zero, auc |-> Zero,
              confusionMatrix |-> [tp |-> -1, fp |-> -1, tn |-> -1, fn |-> -1]]

-----------------------------------------------------------------------------
(* createStratifiedFolds *)

randomSeed == 42   \* CV_CONFIG.randomSeed

\* rng(s) - 0.5 < 0 with rng(s) = frac(sin(s) * 10000): the seeds s of 43..242
\* for which the comparator's value is negative (none of them is within 0.001
\* of the boundary, so the table does not depend on the last bits of sin)
NegativeSeeds ==
    {43, 44, 45, 48, 49, 50, 51, 52, 53, 54, 55, 56, 59, 62, 64, 65, 66, 69, 72,
     73, 75, 76, 77, 80, 81, 82, 85, 86, 92, 93, 94, 97, 98, 100, 101, 102, 108,
     109, 111, 112, 113, 115, 117, 118, 120, 121, 122, 124, 127, 128, 129, 134,
     138, 140, 142, 145, 147, 150, 151, 152, 153, 156, 158, 159, 160, 162, 164,
     167, 168, 169, 170, 174, 179, 180, 181, 182, 185, 187, 189, 191, 193, 194,
     196, 197, 198, 199, 200, 201, 202, 203, 204, 205, 210, 213, 215, 217, 221,
     225, 228, 230, 231, 232, 233, 234, 237, 238, 240}

\* the comparator called with the counter already incremented to s: order < 0
CompareNegative(s) == s \in NegativeSeeds

\* arr.sort(comparator) of Node.js (V8's TimSort) on fewer than 64 elements: one
\* run is counted from the start (reversed when it descends), the rest is
\* inserted by binary search.  The comparator ignores its arguments, so the
\* outcome depends on the call count alone.  Positions are 0-based.
RECURSIVE CountRun(_, _, _, _, _)
CountRun(s, idx, high, desc, runLength) ==
    IF idx >= high THEN [len |-> runLength, seed |-> s]
    ELSE LET neg == CompareNegative(s + 1)
         IN IF (desc /\ ~neg) \/ (~desc /\ neg)
            THEN [len |-> runLength, seed |-> s + 1]
            ELSE CountRun(s + 1, idx + 1, high, desc, runLength + 1)

ReverseRange(arr, n) ==
    [i \in 1..Len(arr) |-> IF i <= n THEN arr[n + 1 - i] ELSE arr[i]]

RECURSIVE BinarySearch(_, _, _)
BinarySearch(s, left, right) ==
    IF left >= right THEN [pos |-> left, seed |-> s]
    ELSE LET mid == left + ((right - left) \div 2)
         IN IF CompareNegative(s + 1)
            THEN BinarySearch(s + 1, left, mid)
            ELSE BinarySearch(s + 1, mid + 1, right)

\* the element at position start moved to position left, those between shifted up
MoveTo(arr, start, left) ==
    [i \in 1..Len(arr) |->
        IF i - 1 < left \/ i - 1 > start THEN arr[i]
        ELSE IF i - 1 = left THEN arr[start + 1]
        ELSE arr[i - 1]]

RECURSIVE BinaryInsertionSort(_, _, _)
BinaryInsertionSort(st, start, high) ==
    IF start >= high THEN st
    ELSE LET b == BinarySearch(st.seed, 0, start)
         IN BinaryInsertionSort([arr |-> MoveTo(st.arr, start, b.pos), seed |-> b.seed],
                                start + 1, high)

ArraySort(arr, seed) ==
    IF Len(arr) < 2 THEN [arr |-> arr, seed |-> seed]
    ELSE LET desc == CompareNegative(seed + 1)
             run == CountRun(seed + 1, 2, Len(arr), desc, 2)
             made == IF desc THEN ReverseRange(arr, run.len) ELSE arr
         IN BinaryInsertionSort([arr |-> made, seed |-> run.seed], run.len, Len(arr))

\* the counter hoisted out of shuffle: it keeps counting from one shuffle to the next
SeedAtEntryShared(seed, last) == IF last = 0 THEN seed ELSE last

\* let currentSeed = seed : every shuffle starts its own counter at its seed
SeedAtEntry(seed, last) == seed

\* shuffle(arr, seed); last is the counter the previous shuffle ended with
shuffle(arr, seed, last) == ArraySort(arr, SeedAtEntry(seed, last))

\* labels.forEach((label, idx) => ...) : the 0-based indices of one class, ascending
RECURSIVE IndicesOf(_, _, _)
IndicesOf(labs, positive, n) ==
    IF n = 0 THEN << >>
    ELSE IF (labs[n] = 1) = positive
         THEN Append(IndicesOf(labs, positive, n - 1), n - 1)
         ELSE IndicesOf(labs, positive, n - 1)

\* arr.slice(start, end): both positions are clamped to the length
Slice(arr, start, end) ==
    LET from == IF start > Len(arr) THEN Len(arr) ELSE start
        to == IF end > Len(arr) THEN Len(arr) ELSE end
    IN IF from >= to THEN << >> ELSE SubSeq(arr, from + 1, to)

\* the last fold's chunk cut like every other one: the remainder is dropped
ChunkEndNoRemainder(i, k, perFold, len) == (i + 1) * perFold

\* i === k - 1 ? arr.length : (i + 1) * perFold
ChunkEnd(i, k, perFold, len) == IF i = k - 1 THEN len ELSE (i + 1) * perFold

\* the chunk size rounded up instead of down
PerFoldCeil(len, k) == (len + k - 1) \div k

\* Math.floor(length / k)
PerFold(len, k) == len \div k

\* every fold records the nominal chunk size, the last one too
MakeFoldNominalCount(i, k, pos, neg) ==
    LET posPerFold == PerFold(Len(pos), k)
        negPerFold == PerFold(Len(neg), k)
        posStart == i * posPerFold
        negStart == i * negPerFold
        posEnd == ChunkEnd(i, k, posPerFold, Len(pos))
        negEnd == ChunkEnd(i, k, negPerFold, Len(neg))
    IN [indices |-> Slice(pos, posStart, posEnd) \o Slice(neg, negStart, negEnd),
        positive |-> posPerFold,
        negative |-> negPerFold]

MakeFold(i, k, pos, neg) ==
    LET posPerFold == PerFold(Len(pos), k)
        negPerFold == PerFold(Len(neg), k)
        posStart == i * posPerFold
        negStart == i * negPerFold
        posEnd == ChunkEnd(i, k, posPerFold, Len(pos))
        negEnd == ChunkEnd(i, k, negPerFold, Len(neg))
    IN [indices |-> Slice(pos, posStart, posEnd) \o Slice(neg, negStart, negEnd),
        positive |-> posEnd - posStart,
        negative |-> negEnd - negStart]

\* the folds returned, and the comparator counter the second shuffle ended with
createStratifiedFolds(labs, k, last) ==
    LET pos == shuffle(IndicesOf(labs, TRUE, Len(labs)), randomSeed, last)
        neg == shuffle(IndicesOf(labs, FALSE, Len(labs)), randomSeed + 1, pos.seed)
    IN [folds |-> [i \in 1..k |-> MakeFold(i - 1, k, pos.arr, neg.arr)],
        seed |-> neg.seed]

-----------------------------------------------------------------------------
(* Specification of createStratifiedFolds alone: every label vector of up to *)
(* MaxSamples samples and every k of 1..MaxK, partitioned MaxCalls times     *)

Datasets == UNION {[1..n -> Labels] : n \in 1..MaxN}
FoldDatasets == UNION {[1..n -> Labels] : n \in 1..MaxSamples}

InitFolds ==
    /\ labels \in FoldDatasets
    /\ nFolds \in 1..MaxK
    /\ predictions = << >>
    /\ yTest = << >>
    /\ metrics = NoMetrics
    /\ baseline = NoMetrics
    /\ partitions = << >>
    /\ currentSeed = 0
    /\ NoRun
    /\ NoHttp

CreateStratifiedFolds ==
    /\ Len(partitions) < MaxCalls
    /\ LET r == createStratifiedFolds(labels, nFolds, currentSeed)
       IN /\ partitions' = Append(partitions, r.folds)
          /\ currentSeed' = r.seed
    /\ UNCHANGED <<labels, nFolds, evalVars, runVars, httpVars>>

NextFolds == CreateStratifiedFolds

SpecFolds == InitFolds /\ [][NextFolds]_vars

-----------------------------------------------------------------------------
(* Properties of createStratifiedFolds, checked under SpecFolds *)

Range(s) == {s[i] : i \in 1..Len(s)}
NumPositive == Cardinality({i \in 1..Len(labels) : labels[i] = 1})
NumNegative == Cardinality({i \in 1..Len(labels) : labels[i] # 1})
CanStratify == nFolds >= 2 /\ NumPositive >= nFolds /\ NumNegative >= nFolds

RECURSIVE TotalLen(_, _)
TotalLen(fs, n) == IF n = 0 THEN 0 ELSE TotalLen(fs, n - 1) + Len(fs[n].indices)

IsPartition(fs) ==
    /\ \A a, b \in 1..Len(fs) : a # b => Range(fs[a].indices) \cap Range(fs[b].indices) = {}
    /\ UNION {Range(fs[a].indices) : a \in 1..Len(fs)} = 0..(Len(labels) - 1)
    /\ TotalLen(fs, Len(fs)) = Len(labels)

\* C1: with k >= 2 and at least k samples of each class, createStratifiedFolds
\* returns exactly k folds, pairwise disjoint, whose union is 0..n-1, no index
\* twice.
C1_FoldsPartition ==
    \A c \in 1..Len(partitions) :
        CanStratify => (Len(partitions[c]) = nFolds /\ IsPartition(partitions[c]))

\* C1 witness: folds were made for a dataset whose positives do not divide
\* evenly among the k folds, so that the last fold takes a remainder.
C1_Witness ==
    /\ Len(partitions) >= 1
    /\ CanStratify
    /\ NumPositive % nFolds # 0

\* the number of indices of a fold whose label is (is not) 1
HeldPositive(f) == Cardinality({j \in 1..Len(f.indices) : labels[f.indices[j] + 1] = 1})
HeldNegative(f) == Cardinality({j \in 1..Len(f.indices) : labels[f.indices[j] + 1] # 1})

\* the share of fold i of a class of len samples: floor(len/k), and everything
\* that is left for fold k-1
Share(i, k, len) == IF i = k - 1 THEN len - (k - 1) * (len \div k) ELSE len \div k

\* C13: folds 0..k-2 hold floor(P/k) positive and floor(N/k) negative indices,
\* the last fold holds the remaining ones, each class's part is a contiguous
\* chunk of that class's shuffled list, and the recorded positive and negative
\* counts are the numbers of label-1 and label-0 indices the fold holds.
C13_ChunkSizes ==
    \A c \in 1..Len(partitions) :
        LET pos == shuffle(IndicesOf(labels, TRUE, Len(labels)), randomSeed, 0).arr
            neg == shuffle(IndicesOf(labels, FALSE, Len(labels)), randomSeed + 1, 0).arr
        IN \A i \in 0..(nFolds - 1) :
              LET f == partitions[c][i + 1]
                  p == Share(i, nFolds, NumPositive)
                  n == Share(i, nFolds, NumNegative)
                  pFrom == i * (NumPositive \div nFolds)
                  nFrom == i * (NumNegative \div nFolds)
              IN /\ Len(f.indices) = p + n
                 /\ SubSeq(f.indices, 1, p) = SubSeq(pos, pFrom + 1, pFrom + p)
                 /\ SubSeq(f.indices, p + 1, p + n) = SubSeq(neg, nFrom + 1, nFrom + n)
                 /\ HeldPositive(f) = p
                 /\ HeldNegative(f) = n
                 /\ f.positive = HeldPositive(f)
                 /\ f.negative = HeldNegative(f)

\* C13 witness: folds were made where neither class divides evenly among the
\* k folds, so both chunks of the last fold are longer than the others'
C13_Witness ==
    /\ Len(partitions) >= 1
    /\ CanStratify
    /\ NumPositive % nFolds # 0
    /\ NumNegative % nFolds # 0
    /\ partitions[1][nFolds].positive > partitions[1][1].positive
    /\ partitions[1][nFolds].negative > partitions[1][1].negative

\* C14 as stated: with k >= 2, P >= k and N >= k, every fold's positive count
\* differs from P/k by at most 1 and its negative count from N/k by at most 1
\* (compared after multiplying by k).
C14_WithinOneOfEvenShare ==
    \A c \in 1..Len(partitions) :
        CanStratify =>
            \A i \in 1..nFolds :
                /\ Abs(nFolds * HeldPositive(partitions[c][i]) - NumPositive) <= nFolds
                /\ Abs(nFolds * HeldNegative(partitions[c][i]) - NumNegative) <= nFolds

\* C14 amended: every fold but the last is below the even share by less than
\* one sample; the last fold is never below it and exceeds it by
\* (k-1)/k * (P mod k), respectively (k-1)/k * (N mod k), which is less than
\* k-1 samples.
C14_LastFoldTakesRemainder ==
    \A c \in 1..Len(partitions) :
        CanStratify =>
            \A i \in 1..nFolds :
                LET dp == nFolds * HeldPositive(partitions[c][i]) - NumPositive
                    dn == nFolds * HeldNegative(partitions[c][i]) - NumNegative
                IN IF i < nFolds
                   THEN dp <= 0 /\ -dp < nFolds /\ dn <= 0 /\ -dn < nFolds
                   ELSE /\ dp = (nFolds - 1) * (NumPositive % nFolds)
                        /\ dn = (nFolds - 1) * (NumNegative % nFolds)
                        /\ dp < nFolds * (nFolds - 1)
                        /\ dn < nFolds * (nFolds - 1)

\* C14 witness: folds were made and the last fold holds more than one
\* positive above the even share
C14_Witness ==
    /\ Len(partitions) >= 1
    /\ CanStratify
    /\ nFolds * HeldPositive(partitions[1][nFolds]) - NumPositive > nFolds

\* C7: two calls of createStratifiedFolds with the same seed, the same k and the
\* same labels return identical folds.
C7_Deterministic ==
    \A a, b \in 1..Len(partitions) : partitions[a] = partitions[b]

\* C7 witness: two calls returned, and the shuffle did reorder the indices
\* (some fold does not list its indices in the ascending input order).
C7_Witness ==
    /\ Len(partitions) >= 2
    /\ CanStratify
    /\ \E f \in 1..nFolds :
          \E i, j \in 1..Len(partitions[1][f].indices) :
              /\ i < j
              /\ labels[partitions[1][f].indices[i] + 1] = labels[partitions[1][f].indices[j] + 1]
              /\ partitions[1][f].indices[i] > partitions[1][f].indices[j]

-----------------------------------------------------------------------------
(* Specification of evaluateFold alone: every input of up to MaxLen samples, *)
(* evaluated, then rescaled by a strictly increasing map and evaluated again *)

\* The strictly increasing maps of Scores into 0..MaxScore+Stretch are the maps
\* s |-> s + g(s) with g non-decreasing from 0..Stretch: g(s) counts the cut
\* points c[j] that s has reached (a cut point MaxScore+1 is never reached);
\* the cut points are listed in non-decreasing order.
CutPoints == {c \in [1..Stretch -> 0..(MaxScore + 1)] :
                 \A j \in 1..(Stretch - 1) : c[j] <= c[j + 1]}
Rescaled(c, s) == s + Cardinality({j \in 1..Stretch : s >= c[j]})

InitEval ==
    /\ labels = << >>
    /\ nFolds = 0
    /\ \E m \in 1..MaxLen :
          /\ predictions \in [1..m -> Scores]
          /\ yTest \in [1..m -> Labels]
    /\ metrics = NoMetrics
    /\ baseline = NoMetrics
    /\ partitions = << >>
    /\ currentSeed = 0
    /\ NoRun
    /\ NoHttp

EvaluateFold ==
    /\ metrics = NoMetrics
    /\ metrics' = evaluateFold(predictions, yTest)
    /\ UNCHANGED <<labels, nFolds, predictions, yTest, baseline, foldVars, runVars, httpVars>>

Rescale ==
    /\ metrics # NoMetrics
    /\ baseline = NoMetrics
    /\ \E c \in CutPoints :
          predictions' = [i \in 1..Len(predictions) |-> Rescaled(c, predictions[i])]
    /\ baseline' = metrics
    /\ metrics' = NoMetrics
    /\ UNCHANGED <<labels, nFolds, yTest, foldVars, runVars, httpVars>>

NextEval == EvaluateFold \/ Rescale

SpecEval == InitEval /\ [][NextEval]_vars

-----------------------------------------------------------------------------
(* Properties of evaluateFold, checked under SpecEval *)

Evaluated == metrics # NoMetrics
PosIdx == {i \in 1..Len(yTest) : yTest[i] = 1}
NegIdx == {i \in 1..Len(yTest) : yTest[i] = 0}
BothClasses == PosIdx # {} /\ NegIdx # {}
NoTies == \A i, j \in 1..Len(predictions) : i # j => predictions[i] # predictions[j]
AllTied == \A i, j \in 1..Len(predictions) : predictions[i] = predictions[j]
\* the (positive, negative) pairs in which the positive has the higher score
Concordant == {ij \in PosIdx \X NegIdx : predictions[ij[1]] > predictions[ij[2]]}
Discordant == {ij \in PosIdx \X NegIdx : predictions[ij[1]] < predictions[ij[2]]}
\* the samples whose probability is at least 0.5 (two quarters)
AtLeastHalf == {i \in 1..Len(predictions) : 2 * predictions[i] >= 4}

\* C2: with both classes present and no two equal scores, auc is the fraction of
\* (positive, negative) pairs in which the positive's score is the higher one
\* (so auc = 1 when every positive scores above every negative).
C2_AucIsConcordantFraction ==
    (Evaluated /\ BothClasses /\ NoTies) =>
        NumEq(metrics.auc,
              Div(Cardinality(Concordant), Cardinality(PosIdx) * Cardinality(NegIdx)))

\* C8: when every score is the same and both classes are present auc is 1/2,
\* and predictions [0.5,0.5,0.5,0.5] with labels [1,0,1,0] give tp=2, fp=2,
\* tn=0, fn=0, precision 1/2, recall 1.
C8_TiedScoresGiveChance ==
    /\ (Evaluated /\ BothClasses /\ AllTied) => NumEq(metrics.auc, Div(1, 2))
    /\ (Evaluated /\ predictions = <<2, 2, 2, 2>> /\ yTest = <<1, 0, 1, 0>>) =>
           /\ metrics.confusionMatrix = [tp |-> 2, fp |-> 2, tn |-> 0, fn |-> 0]
           /\ NumEq(metrics.precision, Div(1, 2))
           /\ NumEq(metrics.recall, Div(1, 1))

\* some two samples have the same score
SomeTie == \E i, j \in 1..Len(predictions) : i # j /\ predictions[i] = predictions[j]

\* C21: when the input holds at least one positive and at least one negative
\* sample, with or without tied scores, auc is a number of the closed interval
\* [0, 1].
C21_AucInUnitInterval ==
    (Evaluated /\ BothClasses) =>
        /\ ~IsNaN(metrics.auc)
        /\ ~Less(metrics.auc, Zero)
        /\ ~Less(Div(1, 1), metrics.auc)

\* C21 witness: an evaluated input of both classes with tied scores whose auc
\* is an end of the interval
C21_Witness ==
    /\ Evaluated
    /\ BothClasses
    /\ SomeTie
    /\ Len(predictions) >= 3
    /\ NumEq(metrics.auc, Zero) \/ NumEq(metrics.auc, Div(1, 1))

\* C9: with both classes present, the auc of the rescaled scores (a strictly
\* increasing map applied to every score) equals the auc of the original scores.
C9_AucRankInvariant ==
    (Evaluated /\ baseline # NoMetrics /\ BothClasses) =>
        NumEq(metrics.auc, baseline.auc)

\* C9 witness: a rescaling that moved a score across the threshold (the
\* confusion matrix changed) was evaluated, with both classes present.
C9_Witness ==
    /\ Evaluated
    /\ baseline # NoMetrics
    /\ BothClasses
    /\ metrics.confusionMatrix # baseline.confusionMatrix
    /\ metrics.auc.num # 0

\* C10: predicted = 1 exactly when the probability is >= 0.5; tp, fp, tn, fn count
\* (pred 1, actual 1), (pred 1, actual 0), (pred 0, actual 0), (pred 0, actual 1);
\* the four cells add up to the number of samples.
C10_ConfusionMatrix ==
    Evaluated =>
        LET c == metrics.confusionMatrix
            all == 1..Len(predictions)
        IN /\ c.tp = Cardinality(AtLeastHalf \cap PosIdx)
           /\ c.fp = Cardinality(AtLeastHalf \cap NegIdx)
           /\ c.tn = Cardinality((all \ AtLeastHalf) \cap NegIdx)
           /\ c.fn = Cardinality((all \ AtLeastHalf) \cap PosIdx)
           /\ c.tp + c.fp + c.tn + c.fn = Len(predictions)

\* C10 witness: an input with a probability of exactly 0.5 and all four cells filled
C10_Witness ==
    /\ Evaluated
    /\ \E i \in 1..Len(predictions) : predictions[i] = 2 /\ yTest[i] = 1
    /\ metrics.confusionMatrix = [tp |-> 1, fp |-> 1, tn |-> 1, fn |-> 1]

\* n/d, and 0 when the denominator d is 0
RatioOrZero(n, d) == IF d = 0 THEN Zero ELSE Div(n, d)

\* C11: accuracy = (tp+tn)/(tp+fp+tn+fn), precision = tp/(tp+fp),
\* recall = tp/(tp+fn), specificity = tn/(tn+fp) and
\* f1 = 2*precision*recall/(precision+recall), each of the last four being
\* exactly 0 when its own denominator is 0.
C11_MetricFormulas ==
    Evaluated =>
        LET c == metrics.confusionMatrix
            p == RatioOrZero(c.tp, c.tp + c.fp)
            r == RatioOrZero(c.tp, c.tp + c.fn)
            pr2 == Times(Div(2, 1), Times(p, r))
            sum == Plus(p, r)
        IN /\ NumEq(metrics.accuracy, Div(c.tp + c.tn, c.tp + c.fp + c.tn + c.fn))
           /\ NumEq(metrics.precision, p)
           /\ NumEq(metrics.recall, r)
           /\ NumEq(metrics.specificity, RatioOrZero(c.tn, c.tn + c.fp))
           /\ NumEq(metrics.f1, RatioOrZero(pr2.num * sum.den, pr2.den * sum.num))

\* C11 witness: nothing was predicted positive although a positive was there,
\* so precision and f1 have a zero denominator; and an input whose
\* specificity has one is covered too (no negative at all).
C11_Witness ==
    /\ Evaluated
    /\ metrics.confusionMatrix.tp + metrics.confusionMatrix.fp = 0
    /\ metrics.confusionMatrix.fn > 0
    /\ metrics.confusionMatrix.tn + metrics.confusionMatrix.fp = 0

-----------------------------------------------------------------------------
(* runCrossValidation *)

\* a running average: every partial sum is halved before the next value is added
RECURSIVE SumOfHalving(_, _)
SumOfHalving(values, n) ==
    IF n = 1 THEN Reduce(values[1])
    ELSE Plus(Over(SumOfHalving(values, n - 1), 2), values[n])

\* values.reduce((a, b) => a + b) : no initial value, the first element starts the sum
RECURSIVE SumOf(_, _)
SumOf(values, n) ==
    IF n = 1 THEN Reduce(values[1]) ELSE Plus(SumOf(values, n - 1), values[n])

\* values.reduce((a, b) => a + Math.pow(b - mean, 2), 0)
RECURSIVE SumSquares(_, _, _)
SumSquares(values, mean, n) ==
    IF n = 0 THEN Zero
    ELSE Plus(SumSquares(values, mean, n - 1),
              Times(Minus(values[n], mean), Minus(values[n], mean)))

\* the sample standard deviation: the squares divided by values.length - 1
calculateStatsSample(results, metric) ==
    LET values == [i \in 1..Len(results) |-> results[i][metric]]
        mean == Over(SumOf(values, Len(values)), Len(values))
        variance == Over(SumSquares(values, mean, Len(values)), Len(values) - 1)
    IN [mean |-> mean, variance |-> variance, values |-> values]

\* calculateStats(metric); std is Math.sqrt(variance), kept here as its square
calculateStats(results, metric) ==
    LET values == [i \in 1..Len(results) |-> results[i][metric]]
        mean == Over(SumOf(values, Len(values)), Len(values))
        variance == Over(SumSquares(values, mean, Len(values)), Len(values))
    IN [mean |-> mean, variance |-> variance, values |-> values]

MetricNames == {"accuracy", "precision", "recall", "f1", "specificity", "auc"}

Aggregated(results) == [m \in MetricNames |-> calculateStats(results, m)]

\* aggregated.auc.std < 0.05, that is variance < 0.05 * 0.05 = 1/400 (false for NaN)
Stability(agg) ==
    IF Less(agg["auc"].variance, Div(1, 400)) THEN "stable" ELSE "variable"

\* every fold's indices, the test fold's too
RECURSIVE FlatAll(_, _, _)
FlatAll(fs, skip, n) ==
    IF n = 0 THEN << >> ELSE FlatAll(fs, skip, n - 1) \o fs[n].indices

\* folds.filter((_, i) => i !== foldIdx).flatMap(f => f.indices), over the first n folds
RECURSIVE FlatOthers(_, _, _)
FlatOthers(fs, skip, n) ==
    IF n = 0 THEN << >>
    ELSE IF n - 1 = skip THEN FlatOthers(fs, skip, n - 1)
         ELSE FlatOthers(fs, skip, n - 1) \o fs[n].indices

testIndices == folds[foldIdx + 1].indices
trainIndices == FlatOthers(folds, foldIdx, Len(folds))

\* the failed fold skipped and the loop continued, as a try/catch inside the loop would
CatchTargetContinue(inLoop) == IF inLoop THEN "dispose" ELSE "exit"

\* catch (error) { console.error(error); process.exit(1); }
CatchTarget(inLoop) == "exit"

\* one instance made before the loop and handed to every fold
createModelOnce(created, last) ==
    IF created = 0 THEN [model |-> 1, created |-> 1]
    ELSE [model |-> last, created |-> created]

\* const model = createModel(xs.shape[1]) : a new instance at every call
createModel(created, last) == [model |-> created + 1, created |-> created + 1]

\* the new metrics put in front of the earlier ones
Unshift(results, m) == <<m>> \o results

\* foldResults.push(metrics)
Push(results, m) == Append(results, m)

\* the resources one fold makes: the four tensors of splitByIndices, the model
\* of createModel and the output tensor of model.predict
Resources(kinds, fold) == {[kind |-> r, fold |-> fold] : r \in kinds}

\* xTrain.dispose(); yTrain.dispose(); xTest.dispose(); yTest.dispose(); model.dispose()
Disposed == {"xTrain", "yTrain", "xTest", "yTest", "model"}

Caught(kind, inLoop) ==
    /\ pc' = CatchTarget(inLoop)
    /\ error' = [kind |-> kind, fold |-> IF inLoop THEN foldIdx ELSE -1]
    /\ UNCHANGED <<labels, nFolds, evalVars, foldVars, folds, foldIdx, foldResults,
                   model, modelsCreated, createLog, fitLog, predictLog, report, verdict,
                   earlier, httpVars>>

Init ==
    /\ labels \in Datasets
    /\ nFolds \in 1..MaxK
    /\ predictions = << >>
    /\ yTest = << >>
    /\ metrics = NoMetrics
    /\ baseline = NoMetrics
    /\ partitions = << >>
    /\ currentSeed = 0
    /\ pc = "load"
    /\ folds = << >>
    /\ foldIdx = 0
    /\ foldResults = << >>
    /\ model = 0
    /\ modelsCreated = 0
    /\ createLog = << >>
    /\ fitLog = << >>
    /\ predictLog = << >>
    /\ report = [written |-> FALSE]
    /\ verdict = "none"
    /\ live = {}
    /\ earlier = [written |-> FALSE]
    /\ error = [kind |-> "none", fold |-> -1]
    /\ NoHttp

\* const { xs, ys } = await loadAndPreprocessData()
LoadData ==
    /\ pc = "load"
    /\ pc' = "folds"
    /\ UNCHANGED <<labels, nFolds, evalVars, foldVars, folds, foldIdx, foldResults,
                   model, modelsCreated, createLog, fitLog, predictLog, report, verdict, error,
                   live, earlier, httpVars>>

LoadDataThrows ==
    /\ UNCHANGED live
    /\ pc = "load"
    /\ Caught("load", FALSE)

\* const folds = createStratifiedFolds(..., flatLabels, CV_CONFIG.nFolds)
CreateFolds ==
    /\ pc = "folds"
    /\ LET r == createStratifiedFolds(labels, nFolds, currentSeed)
       IN /\ folds' = r.folds
          /\ partitions' = Append(partitions, r.folds)
          /\ currentSeed' = r.seed
          /\ pc' = IF 0 < Len(r.folds) THEN "split" ELSE "save"
    /\ foldIdx' = 0
    /\ UNCHANGED <<labels, nFolds, evalVars, foldResults, model, modelsCreated, createLog,
                   fitLog, predictLog, report, verdict, error, live, earlier, httpVars>>

\* splitByIndices(xs, ys, trainIndices, testIndices); tf.tensor2d throws on an
\* empty array (no shape can be inferred from it)
SplitByIndices ==
    /\ pc = "split"
    /\ IF Len(trainIndices) = 0 \/ Len(testIndices) = 0
       THEN /\ Caught("split", TRUE)
            /\ live' = IF Len(trainIndices) = 0 THEN live
                       ELSE live \cup Resources({"xTrain", "yTrain"}, foldIdx)
       ELSE /\ yTest' = [i \in 1..Len(testIndices) |-> labels[testIndices[i] + 1]]
            /\ live' = live \cup Resources({"xTrain", "yTrain", "xTest", "yTest"}, foldIdx)
            /\ pc' = "create"
            /\ UNCHANGED <<labels, nFolds, predictions, metrics, baseline, foldVars,
                           folds, foldIdx, foldResults, model, modelsCreated, createLog, fitLog,
                           predictLog, report, verdict, error, earlier, httpVars>>

CreateModel ==
    /\ pc = "create"
    /\ LET m == createModel(modelsCreated, model)
       IN /\ model' = m.model
          /\ modelsCreated' = m.created
          /\ createLog' = IF m.created > modelsCreated
                           THEN Append(createLog, [fold |-> foldIdx, model |-> m.model])
                           ELSE createLog
          /\ live' = IF m.created > modelsCreated
                      THEN live \cup Resources({"model"}, foldIdx)
                      ELSE live
    /\ pc' = "train"
    /\ UNCHANGED <<labels, nFolds, evalVars, foldVars, folds, foldIdx, foldResults,
                   fitLog, predictLog, report, verdict, error, earlier, httpVars>>

\* await trainModel(model, xTrain, yTrain)
TrainModel ==
    /\ pc = "train"
    /\ fitLog' = Append(fitLog, [fold |-> foldIdx, model |-> model, indices |-> trainIndices])
    /\ pc' = "evaluate"
    /\ UNCHANGED <<labels, nFolds, evalVars, foldVars, folds, foldIdx, foldResults,
                   model, modelsCreated, createLog, predictLog, report, verdict, error, live,
                   earlier, httpVars>>

TrainModelThrows ==
    /\ UNCHANGED live
    /\ pc = "train"
    /\ Caught("train", TRUE)

\* const metrics = await evaluateFold(model, xTest, yTest); foldResults.push(metrics)
EvaluateAndPush ==
    /\ pc = "evaluate"
    /\ \E preds \in [1..Len(yTest) -> Scores] :
          foldResults' = Push(foldResults, evaluateFold(preds, yTest))
    /\ predictLog' = Append(predictLog,
                            [fold |-> foldIdx, model |-> model, indices |-> testIndices])
    /\ live' = live \cup Resources({"prediction"}, foldIdx)
    /\ pc' = "dispose"
    /\ UNCHANGED <<labels, nFolds, evalVars, foldVars, folds, foldIdx, model,
                   modelsCreated, createLog, fitLog, report, verdict, error, earlier,
                   httpVars>>

PredictThrows ==
    /\ UNCHANGED live
    /\ pc = "evaluate"
    /\ Caught("evaluate", TRUE)

\* xTrain.dispose() ... model.dispose(); foldIdx++ and the loop test
DisposeAndNext ==
    /\ pc = "dispose"
    /\ yTest' = << >>
    /\ foldIdx' = foldIdx + 1
    /\ live' = live \ Resources(Disposed, foldIdx)
    /\ pc' = IF foldIdx + 1 < Len(folds) THEN "split" ELSE "save"
    /\ UNCHANGED <<labels, nFolds, predictions, metrics, baseline, foldVars, folds,
                   foldResults, model, modelsCreated, createLog, fitLog, predictLog, report,
                   verdict, error, earlier, httpVars>>

\* steps 4 to 6: the statistics, the report written to cv_results.json, the
\* stability line, return report
SaveReport ==
    /\ pc = "save"
    /\ LET agg == Aggregated(foldResults)
       IN /\ report' = [written |-> TRUE, folds |-> foldResults,
                        aggregated |-> [m \in MetricNames |->
                                          [mean |-> agg[m].mean, variance |-> agg[m].variance]]]
          /\ verdict' = Stability(agg)
    /\ pc' = "done"
    /\ UNCHANGED <<labels, nFolds, evalVars, foldVars, folds, foldIdx, foldResults,
                   model, modelsCreated, createLog, fitLog, predictLog, error, live, earlier,
                   httpVars>>

\* fs.mkdir or fs.writeFile rejects
SaveThrows ==
    /\ UNCHANGED live
    /\ pc = "save"
    /\ Caught("save", FALSE)

Next ==
    \/ LoadData
    \/ LoadDataThrows
    \/ CreateFolds
    \/ SplitByIndices
    \/ CreateModel
    \/ TrainModel
    \/ TrainModelThrows
    \/ EvaluateAndPush
    \/ PredictThrows
    \/ DisposeAndNext
    \/ SaveReport
    \/ SaveThrows

Spec == Init /\ [][Next]_vars

-----------------------------------------------------------------------------
(* Specification of the aggregation alone: steps 4 to 6 of runCrossValidation *)
(* on up to MaxK fold results, then on the same results in another order      *)

\* fold results to aggregate: what evaluateFold returns for a test set of both
\* classes and for one of a single class (whose auc is NaN)
SampleResults ==
    {evaluateFold(p, <<0, 1>>) : p \in [1..2 -> Scores]}
        \cup {evaluateFold(p, <<1>>) : p \in [1..1 -> Scores]}

Orders(n) == {f \in [1..n -> 1..n] : \A a, b \in 1..n : f[a] = f[b] => a = b}

InitAgg ==
    /\ labels = << >>
    /\ nFolds = 0
    /\ predictions = << >>
    /\ yTest = << >>
    /\ metrics = NoMetrics
    /\ baseline = NoMetrics
    /\ partitions = << >>
    /\ currentSeed = 0
    /\ pc = "save"
    /\ folds = << >>
    /\ foldIdx = 0
    /\ \E k \in 1..MaxK : foldResults \in [1..k -> SampleResults]
    /\ model = 0
    /\ modelsCreated = 0
    /\ createLog = << >>
    /\ fitLog = << >>
    /\ predictLog = << >>
    /\ report = [written |-> FALSE]
    /\ verdict = "none"
    /\ live = {}
    /\ earlier = [written |-> FALSE]
    /\ error = [kind |-> "none", fold |-> -1]
    /\ NoHttp

\* the same fold results handed to the aggregation once more, in another order
Reorder ==
    /\ pc = "done"
    /\ ~earlier.written
    /\ \E f \in Orders(Len(foldResults)) :
          foldResults' = [i \in 1..Len(foldResults) |-> foldResults[f[i]]]
    /\ earlier' = [written |-> TRUE, folds |-> report.folds,
                   aggregated |-> report.aggregated, verdict |-> verdict]
    /\ pc' = "save"
    /\ UNCHANGED <<labels, nFolds, evalVars, foldVars, folds, foldIdx, model, modelsCreated,
                   createLog, fitLog, predictLog, report, verdict, live, error, httpVars>>

NextAgg == SaveReport \/ Reorder

SpecAgg == InitAgg /\ [][NextAgg]_vars

-----------------------------------------------------------------------------
(* The Express applications: src/src/index.js, and the authenticated one with *)
(* helmet, the Bearer token check and POST /api/v1/predict                     *)

Methods == {"GET", "POST"}
Paths == {"/health", "/api/v1/info", "/api/v1/predict", "/nonexistent"}

\* request bodies: none, JSON that does not parse, and JSON objects that
\* validatePredictionInput rejects or accepts
Bodies == {"none", "malformed", "invalidInput", "validInput"}

\* Authorization header values as the sequence of their words and spaces
AuthorizationHeaders ==
    {Absent} \cup {Header(v) : v \in {<<"Bearer">>, <<"Bearer", " ">>, <<"good">>,
                                      <<"Bearer", " ", "good">>, <<"Bearer", " ", "bad">>,
                                      <<"Bearer", " ", " ", "good">>,
                                      <<"Basic", " ", "good">>}}

ApiTokens == {"undefined", "good"}

\* header.split(' '): the parts between the spaces, each the sequence of its words
RECURSIVE Split(_)
Split(h) ==
    IF h = << >> THEN << << >> >>
    ELSE LET rest == Split(Tail(h))
         IN IF Head(h) = " " THEN << << >> >> \o rest
            ELSE << <<Head(h)>> \o Head(rest) >> \o Tail(rest)

\* const token = authHeader && authHeader.split(' ')[1]
Undefined == [defined |-> FALSE, value |-> << >>]
TokenOf(authHeader) ==
    IF ~authHeader.present THEN Undefined
    ELSE LET parts == Split(authHeader.value)
         IN IF Len(parts) >= 2 THEN [defined |-> TRUE, value |-> parts[2]] ELSE Undefined

\* !(!token || token !== process.env.API_TOKEN)
Authorized(authHeader, configured) ==
    LET token == TokenOf(authHeader)
    IN /\ token.defined
       /\ token.value # << >>
       /\ configured # "undefined"
       /\ token.value = <<configured>>

\* the routes in the order they are registered, with their middleware
Routes(app) ==
    IF app = "index"
    THEN << [method |-> "GET", path |-> "/health", protected |-> FALSE, handler |-> "health"],
            [method |-> "GET", path |-> "/api/v1/info", protected |-> FALSE, handler |-> "info"] >>
    ELSE << [method |-> "GET", path |-> "/health", protected |-> FALSE, handler |-> "health"],
            [method |-> "GET", path |-> "/api/v1/info", protected |-> TRUE, handler |-> "info"],
            [method |-> "POST", path |-> "/api/v1/predict", protected |-> TRUE,
             handler |-> "predict"] >>

Matching(app, req) ==
    {i \in 1..Len(Routes(app)) :
        Routes(app)[i].method = req.method /\ Routes(app)[i].path = req.path}

NoBody == [name |-> "", description |-> FALSE, features |-> << >>, technologies |-> {}]

\* res.status(status).json({ error, ... })
Response(status, err, kind) ==
    [status |-> status, error |-> err, kind |-> kind, body |-> NoBody]

\* the body of GET /api/v1/info
InfoBody(app) ==
    [name |-> "Platform-Surgery-Onko-SSV",
     description |-> TRUE,
     features |-> <<"molecular data analysis", "data preprocessing", "trained ML models">>,
     technologies |-> IF app = "index"
                      THEN {"TensorFlow.js", "Express", "danfojs-node"}
                      ELSE {"TensorFlow.js", "Express", "danfojs-node", "helmet"}]

InitHttp ==
    /\ labels = << >>
    /\ nFolds = 0
    /\ predictions = << >>
    /\ yTest = << >>
    /\ metrics = NoMetrics
    /\ baseline = NoMetrics
    /\ partitions = << >>
    /\ currentSeed = 0
    /\ NoRun
    /\ server \in {"index", "authenticated"}
    /\ apiToken \in ApiTokens
    /\ request = NoRequest
    /\ stage = "idle"
    /\ responses = << >>
    /\ ran = {}

\* a request arrives; the first middleware is helmet() in the authenticated
\* application and express.json() in index.js
Receive ==
    /\ stage \in {"idle", "sent"}
    /\ request' \in [method : Methods, path : Paths,
                      authorization : AuthorizationHeaders, body : Bodies]
    /\ responses' = << >>
    /\ ran' = {}
    /\ stage' = IF server = "authenticated" THEN "helmet" ELSE "json"
    /\ UNCHANGED <<labels, nFolds, evalVars, foldVars, runVars, server, apiToken>>

\* app.use(helmet()): sets response headers and calls next()
Helmet ==
    /\ stage = "helmet"
    /\ ran' = ran \cup {"helmet"}
    /\ stage' = "json"
    /\ UNCHANGED <<labels, nFolds, evalVars, foldVars, runVars, server, apiToken, request,
                   responses>>

\* app.use(express.json()): a body that does not parse is passed to next(err),
\* which skips to the error-handling middleware
JsonParser ==
    /\ stage = "json"
    /\ ran' = ran \cup {"json"}
    /\ stage' = IF request.body = "malformed" THEN "error" ELSE "urlencoded"
    /\ UNCHANGED <<labels, nFolds, evalVars, foldVars, runVars, server, apiToken, request,
                   responses>>

\* app.use(express.urlencoded({ extended: true })), then the router: the first
\* route of the request's method and path, or on to the 404 handler (the
\* error-handling middleware is skipped when there is no error)
UrlencodedAndRoute ==
    /\ stage = "urlencoded"
    /\ ran' = ran \cup {"urlencoded"}
    /\ LET m == Matching(server, request)
       IN stage' = IF m = {} THEN "notFound"
                   ELSE LET r == Routes(server)[CHOOSE i \in m : \A j \in m : i <= j]
                        IN IF r.protected THEN "authenticate" ELSE r.handler
    /\ UNCHANGED <<labels, nFolds, evalVars, foldVars, runVars, server, apiToken, request,
                   responses>>

\* authenticateToken
AuthenticateToken ==
    /\ stage = "authenticate"
    /\ ran' = ran \cup {"authenticateToken"}
    /\ IF Authorized(request.authorization, apiToken)
       THEN /\ stage' = IF request.path = "/api/v1/info" THEN "info" ELSE "predict"
            /\ UNCHANGED responses
       ELSE /\ responses' = Append(responses, Response(401, "Unauthorized", "error"))
            /\ stage' = "sent"
    /\ UNCHANGED <<labels, nFolds, evalVars, foldVars, runVars, server, apiToken, request>>

\* app.get('/health', ...)
Health ==
    /\ stage = "health"
    /\ ran' = ran \cup {"health"}
    /\ responses' = Append(responses, Response(200, "none", "health"))
    /\ stage' = "sent"
    /\ UNCHANGED <<labels, nFolds, evalVars, foldVars, runVars, server, apiToken, request>>

\* app.get('/api/v1/info', ...): res.json sends with the default status 200
Info ==
    /\ stage = "info"
    /\ ran' = ran \cup {"info"}
    /\ responses' = Append(responses, [status |-> 200, error |-> "none", kind |-> "info",
                                        body |-> InfoBody(server)])
    /\ stage' = "sent"
    /\ UNCHANGED <<labels, nFolds, evalVars, foldVars, runVars, server, apiToken, request>>

\* app.post('/api/v1/predict', ...): validatePredictionInput(req.body), where
\* req.body is {} when the request has no body
Predict ==
    /\ stage = "predict"
    /\ ran' = ran \cup {"predict", "validatePredictionInput"}
    /\ responses' = Append(responses,
                            IF request.body = "validInput"
                            THEN Response(200, "none", "prediction")
                            ELSE Response(400, "Validation Error", "error"))
    /\ stage' = "sent"
    /\ UNCHANGED <<labels, nFolds, evalVars, foldVars, runVars, server, apiToken, request>>

\* app.use((err, req, res, next) => ...): status 500 whatever the error is
ErrorHandler ==
    /\ stage = "error"
    /\ ran' = ran \cup {"errorHandler"}
    /\ responses' = Append(responses, Response(500, "Internal Server Error", "error"))
    /\ stage' = "sent"
    /\ UNCHANGED <<labels, nFolds, evalVars, foldVars, runVars, server, apiToken, request>>

\* app.use((req, res) => ...): the 404 handler, registered last
NotFound ==
    /\ stage = "notFound"
    /\ ran' = ran \cup {"notFound"}
    /\ responses' = Append(responses, Response(404, "Not Found", "error"))
    /\ stage' = "sent"
    /\ UNCHANGED <<labels, nFolds, evalVars, foldVars, runVars, server, apiToken, request>>

NextHttp ==
    \/ Receive
    \/ Helmet
    \/ JsonParser
    \/ UrlencodedAndRoute
    \/ AuthenticateToken
    \/ Health
    \/ Info
    \/ Predict
    \/ ErrorHandler
    \/ NotFound

SpecHttp == InitHttp /\ [][NextHttp]_vars

-----------------------------------------------------------------------------
(* Properties of runCrossValidation, checked under Spec *)

FoldsMade == pc \notin {"idle", "load", "folds"} /\ error.kind # "load"
TestLabels(f) == {labels[folds[f].indices[i] + 1] : i \in 1..Len(folds[f].indices)}
\* the test set of fold f (1-based position in folds) lacks one of the two classes
Degenerate(f) == TestLabels(f) # {0, 1}
Calls == Range(fitLog) \cup Range(predictLog)

\* C3: when k < 2, k > number of positives or k > number of negatives, the run
\* fails with InvalidConfiguration once the folds are asked for, and no model
\* has been created or trained.
C3_InvalidConfigurationFirst ==
    (FoldsMade /\ ~CanStratify) =>
        /\ pc = "exit"
        /\ error.kind = "InvalidConfiguration"
        /\ modelsCreated = 0
        /\ fitLog = << >>

\* C4: a fold whose test set lacks a class has no FoldResult recorded, the run
\* having failed with DegenerateFoldError naming that fold, and no report is
\* written.
C4_DegenerateFoldFails ==
    \A f \in 1..Len(folds) :
        Degenerate(f) =>
            /\ Len(foldResults) < f
            /\ ~report.written
            /\ foldIdx >= f => error = [kind |-> "DegenerateFoldError", fold |-> f - 1]

\* C5: a completed run has called createModel exactly k times, once in every
\* fold, fold i fitted and predicted with the instance created in fold i; and at
\* no time has an instance been fitted or used for prediction in two folds.
C5_FreshModelPerFold ==
    /\ pc = "done" =>
          /\ modelsCreated = nFolds
          /\ Len(createLog) = nFolds /\ Len(fitLog) = nFolds /\ Len(predictLog) = nFolds
          /\ \A i \in 1..nFolds :
                /\ createLog[i].fold = i - 1
                /\ fitLog[i].fold = i - 1
                /\ predictLog[i].fold = i - 1
                /\ fitLog[i].model = createLog[i].model
                /\ predictLog[i].model = createLog[i].model
    /\ \A a, b \in Calls : a.model = b.model => a.fold = b.fold

\* C5 witness: a run over three folds has completed
C5_Witness ==
    /\ pc = "done"
    /\ nFolds = 3
    /\ Len(predictLog) = 3

\* C6: a report exists only when all k folds were trained and evaluated without
\* error; after a failure in loading or in fold i the run has ended, no fold
\* after i was trained and no report exists.
C6_AllOrNothing ==
    /\ report.written =>
          /\ error.kind = "none"
          /\ Len(fitLog) = nFolds
          /\ Len(foldResults) = nFolds
          /\ \A i \in 1..nFolds : fitLog[i].fold = i - 1
    /\ error.kind # "none" =>
          /\ pc = "exit"
          /\ ~report.written
          /\ error.kind # "save" => \A i \in 1..Len(fitLog) : fitLog[i].fold <= error.fold

\* C6 witness: training failed in the second fold, after the first fold's
\* result had been recorded
C6_Witness ==
    /\ pc = "exit"
    /\ error = [kind |-> "train", fold |-> 1]
    /\ Len(foldResults) = 1
    /\ nFolds = 3

\* the sum of the values of a metric over the fold results, and of their squares
RECURSIVE Total(_, _)
Total(results, metric) ==
    IF results = << >> THEN Zero
    ELSE Plus(Head(results)[metric], Total(Tail(results), metric))

RECURSIVE TotalOfSquares(_, _)
TotalOfSquares(results, metric) ==
    IF results = << >> THEN Zero
    ELSE Plus(Times(Head(results)[metric], Head(results)[metric]),
              TotalOfSquares(Tail(results), metric))

AllNumbers(results, metric) == \A i \in 1..Len(results) : ~IsNaN(results[i][metric])

\* the population variance of the k values: the mean of the squares minus the
\* square of the mean
PopulationVariance(results, metric) ==
    LET k == Len(results)
        mean == Over(Total(results, metric), k)
    IN Minus(Over(TotalOfSquares(results, metric), k), Times(mean, mean))

\* C12: for every metric the report holds the arithmetic mean of the k per-fold
\* values and their population standard deviation (divisor k; compared here as
\* the variance, its square), and the verdict is "stable" exactly when the
\* population standard deviation of the auc values is below 0.05.
C12_Aggregation ==
    pc = "done" =>
        /\ \A m \in MetricNames :
              AllNumbers(report.folds, m) =>
                 /\ NumEq(Times(report.aggregated[m].mean, Div(Len(report.folds), 1)),
                          Total(report.folds, m))
                 /\ NumEq(report.aggregated[m].variance,
                          PopulationVariance(report.folds, m))
        /\ verdict = "stable" <=>
              /\ AllNumbers(report.folds, "auc")
              /\ Less(PopulationVariance(report.folds, "auc"), Div(1, 400))

\* C12 witness: a completed run whose auc values differ from fold to fold
C12_Witness ==
    /\ pc = "done"
    /\ AllNumbers(report.folds, "auc")
    /\ report.aggregated["auc"].variance.num > 0
    /\ report.aggregated["accuracy"].variance.num > 0
    /\ verdict = "variable"

\* the number of test samples of each class that a fold's metrics counted
CountedPositive(m) == m.confusionMatrix.tp + m.confusionMatrix.fn
CountedNegative(m) == m.confusionMatrix.tn + m.confusionMatrix.fp

\* C15: the folds are trained and evaluated in index order 0..k-1; the training
\* of fold i starts only when the metrics of the folds 0..i-1 are in the
\* results; and in a completed run position i of the report's fold list is the
\* evaluation of the test set of fold i.
C15_FoldsInOrder ==
    /\ \A j \in 1..Len(fitLog) : fitLog[j].fold = j - 1
    /\ \A j \in 1..Len(predictLog) :
          predictLog[j].fold = j - 1 /\ predictLog[j].indices = folds[j].indices
    /\ Len(fitLog) - 1 <= Len(foldResults)
    /\ Len(foldResults) <= Len(fitLog)
    /\ Len(predictLog) = Len(foldResults)
    /\ pc = "train" => Len(foldResults) = foldIdx /\ Len(fitLog) = foldIdx
    /\ pc = "done" =>
          /\ Len(report.folds) = Len(folds)
          /\ \A i \in 1..Len(folds) :
                /\ CountedPositive(report.folds[i]) = folds[i].positive
                /\ CountedNegative(report.folds[i]) = folds[i].negative

\* C15 witness: a completed run whose first and last test sets differ in their
\* class counts, so that a result in the wrong position would show
C15_Witness ==
    /\ pc = "done"
    /\ Len(folds) >= 2
    /\ folds[1].positive # folds[Len(folds)].positive
    /\ CountedPositive(report.folds[1]) # CountedPositive(report.folds[Len(folds)])

\* C16: when a fold starts, every resource made for the earlier folds (the four
\* matrices, the model, the output of model.predict) has been released, so the
\* number of live per-fold resources is the same, none, at the start of every
\* fold.
C16_FoldResourcesReleased ==
    pc = "split" => live = {}

NoDuplicates(s) == Cardinality(Range(s)) = Len(s)

\* C20: for every fold that was trained, the training indices and the test
\* indices are disjoint, neither holds an index twice, and together they are
\* all the indices 0..n-1 of the dataset; the indices the model predicted on
\* are the test indices, none of which it was fitted on.
C20_TrainTestDisjoint ==
    \A j \in 1..Len(fitLog) :
        LET train == fitLog[j].indices
            test == folds[j].indices
        IN /\ Range(train) \cap Range(test) = {}
           /\ NoDuplicates(train)
           /\ NoDuplicates(test)
           /\ Range(train) \cup Range(test) = 0..(Len(labels) - 1)
           /\ j <= Len(predictLog) =>
                 /\ predictLog[j].indices = test
                 /\ predictLog[j].model = fitLog[j].model

\* C20 witness: a completed run of three folds, each trained on the two others
C20_Witness ==
    /\ pc = "done"
    /\ Len(folds) = 3
    /\ Len(fitLog) = 3
    /\ Len(predictLog) = 3
    /\ \A j \in 1..3 : Len(fitLog[j].indices) > Len(folds[j].indices)

\* two values of a statistic are the same: the same number, or NaN both
Same(a, b) == IF IsNaN(a) \/ IsNaN(b) THEN IsNaN(a) /\ IsNaN(b) ELSE NumEq(a, b)

Answered == stage = "sent"

\* C18: a request whose method and path match no registered route gets exactly
\* one response, of status 404 with error 'Not Found', and the 500 error
\* handler does not run for it.
C18_UnmatchedRouteGets404 ==
    (Answered /\ Matching(server, request) = {}) =>
        /\ Len(responses) = 1
        /\ responses[1].status = 404
        /\ responses[1].error = "Not Found"
        /\ "errorHandler" \notin ran

\* C19: GET /api/v1/info without an Authorization header (and without a body,
\* as the test sends it) is answered with status 200 and a body with the name
\* 'Platform-Surgery-Onko-SSV', a description, a non-empty features array and
\* technologies containing 'TensorFlow.js' and 'Express'.
C19_InfoWithoutAuthorization ==
    (/\ Answered
     /\ request.method = "GET"
     /\ request.path = "/api/v1/info"
     /\ request.authorization = Absent
     /\ request.body = "none") =>
        /\ Len(responses) = 1
        /\ responses[1].status = 200
        /\ responses[1].body.name = "Platform-Surgery-Onko-SSV"
        /\ responses[1].body.description
        /\ Len(responses[1].body.features) > 0
        /\ {"TensorFlow.js", "Express"} \subseteq responses[1].body.technologies

\* the positions of the spaces of a header value
Spaces(v) == {i \in 1..Len(v) : v[i] = " "}

\* the header value has a second space-separated part, and it is the word w:
\* w stands alone between the first space and the second space or the end
SecondPartIs(v, w) ==
    /\ Spaces(v) # {}
    /\ LET first == CHOOSE i \in Spaces(v) : \A j \in Spaces(v) : i <= j
           later == {i \in Spaces(v) : i > first}
           end == IF later = {} THEN Len(v) + 1
                  ELSE CHOOSE i \in later : \A j \in later : i <= j
       IN end = first + 2 /\ v[first + 1] = w

\* the request carries the configured token
CarriesToken ==
    /\ apiToken # "undefined"
    /\ request.authorization.present
    /\ SecondPartIs(request.authorization.value, apiToken)

\* the request is for one of the two protected routes
ToProtectedRoute ==
    \/ request.method = "GET" /\ request.path = "/api/v1/info"
    \/ request.method = "POST" /\ request.path = "/api/v1/predict"

Handlers == {"info", "predict", "validatePredictionInput"}

\* C22: in the authenticated application the handlers of GET /api/v1/info and
\* POST /api/v1/predict run only for requests whose Authorization header has
\* the configured API_TOKEN as its second space-separated part; every other
\* request to those routes gets exactly one response, 401 'Unauthorized',
\* without the handler or the input validation running; and without a
\* configured API_TOKEN no request is authorized.
C22_ProtectedRoutes ==
    (server = "authenticated" /\ ToProtectedRoute) =>
        /\ ran \cap Handlers # {} => CarriesToken
        /\ (Answered /\ ~CarriesToken) =>
              /\ Len(responses) = 1
              /\ responses[1].status = 401
              /\ responses[1].error = "Unauthorized"
              /\ ran \cap Handlers = {}
        /\ apiToken = "undefined" => ran \cap Handlers = {}

====
